---- MODULE Spec2Model ----
(***************************************************************************)
(* Playback sequencer of the Hangul flashcard application                  *)
(* (app/controllers/playback_sequence_controller.py).                      *)
(*                                                                         *)
(* The sequencer runs on the single GUI thread.  Every public call         *)
(* (start, cancel), every QTimer.singleShot closure that fires and every   *)
(* continuation the TTS backend calls back is one atomic step.  Pending    *)
(* single-shot timers cannot be revoked: they stay queued until they fire, *)
(* and since the delays are arbitrary they may fire in any order.          *)
(*                                                                         *)
(* Also: the study-item navigator (app/controllers/syllable_navigation.py) *)
(* over the YAML repository (app/controllers/study_item_repository.py),    *)
(* and the Hangul composer (app/domain/hangul_compose.py).  Strings are    *)
(* sequences of code points.  Each component has its own variables and its *)
(* own specifications; the other components' variables stay unchanged.     *)
(***************************************************************************)
EXTENDS Integers, Sequences, FiniteSets, TLC

\* ------------------------------------------------------------------ bounds

\* start() calls explored in one behaviour.
MaxStarts == 2

\* Largest repeat_count handed to start().
MaxRepeat == 2

\* External cancel() calls are explored while the generation token is below this.
MaxGen == 2

\* Glyphs handed to start().
Glyphs == {"ga", "na", "da"}

\* DelaysConfig.pre_first_ms values: only "> 0" versus "<= 0" is decided on;
\* every other delay is clamped with max(0, .) and always goes through a timer.
PreFirstMs == {0, 250}

\* What the injected tts_play callback does with its continuation:
\*   sync   calls on_done before it returns,
\*   async  keeps on_done and calls it from a later event-loop task,
\*   raise  raises without calling on_done.
PlayOutcomes == {"sync", "async", "raise"}

\* ------------------------------------------------------------------- state

VARIABLES
    gen,        \* self._gen
    running,    \* self._running
    timers,     \* closures queued with QTimer.singleShot, not yet fired
    conts,      \* _after_one continuations held by the TTS backend
    log,        \* every invocation of an injected callback, in order
    runs,       \* runs[r]: the arguments of the r-th start() call
    escaped,    \* an exception left a timer closure and reached the event loop
    pairs,              \* SyllableNavigation.pairs
    index,              \* SyllableNavigation.index
    current_consonant,  \* SyllableNavigation.current_consonant
    current_vowel,      \* SyllableNavigation.current_vowel
    call,       \* the latest call of the navigator: arguments and outcome
    comp,       \* a call of the composer: arguments and results
    pron,       \* a call of PronunciationController.pronounce_syllable
    ui,         \* PlaybackUiController: its fields and the widgets it enables
    orch        \* PlaybackOrchestrator: its fields and the calls it has made

seqvars == <<gen, running, timers, conts, log, runs, escaped>>

navvars == <<pairs, index, current_consonant, current_vowel, call>>

svcvars == <<pron, ui, orch>>

vars == <<gen, running, timers, conts, log, runs, escaped,
          pairs, index, current_consonant, current_vowel, call, comp, pron, ui,
          orch>>

\* The state as one value, so that a handler is a function from state to state.
S == [gen |-> gen, running |-> running, timers |-> timers,
      conts |-> conts, log |-> log, runs |-> runs, escaped |-> escaped]

SP == [gen |-> gen', running |-> running', timers |-> timers',
       conts |-> conts', log |-> log', runs |-> runs', escaped |-> escaped']

\* The sequencer's fields after a handler.
CommitSequencer(t) ==
    /\ gen' = t.gen
    /\ running' = t.running
    /\ timers' = t.timers
    /\ conts' = t.conts
    /\ log' = t.log
    /\ runs' = t.runs
    /\ escaped' = t.escaped

Commit(t) ==
    /\ CommitSequencer(t)
    /\ UNCHANGED <<navvars, comp, svcvars>>

Max(a, b) == IF a >= b THEN a ELSE b

\* One invocation of an injected callback.  arg: the glyph of a play, the
\* call site ("cancel" or "finish") of a finished-callback invocation.
Event(ev, run, arg) == [ev |-> ev, run |-> run, arg |-> arg]

Emit(s, ev, run, arg) == [s EXCEPT !.log = Append(@, Event(ev, run, arg))]

\* A closure created by start(): it captures token, glyph, auto_mode (and
\* n_left for _play_n/_after_one).  run is the ordinal of the start() call.
Closure(kind, c, n) ==
    [kind |-> kind, run |-> c.run, token |-> c.token, glyph |-> c.glyph,
     n_left |-> n, auto |-> c.auto]

Schedule(s, cl) == [s EXCEPT !.timers = @ \cup {cl}]

\* ---------------------------------------------------------------- handlers

\* _valid()
Valid(s, c) == s.running /\ c.token = s.gen

\* self._on_finished, as registered by the owner of the sequencer.
OnFinished(s, run, site) == Emit(s, "finished", run, site)

\* Variant of cancel() that leaves the generation token alone.
CancelKeepsToken(s) ==
    IF s.running
    THEN OnFinished([s EXCEPT !.running = FALSE], Len(s.runs), "cancel")
    ELSE s

\* Variant of cancel() that notifies the owner whether or not a run was active.
CancelAlwaysNotifies(s) ==
    OnFinished([s EXCEPT !.gen = @ + 1, !.running = FALSE], Len(s.runs), "cancel")

\* cancel(): the active run, if any, is the one of the latest start().
CancelOp(s) ==
    LET s1 == [s EXCEPT !.gen = @ + 1]
    IN  IF s1.running
        THEN OnFinished([s1 EXCEPT !.running = FALSE], Len(s.runs), "cancel")
        ELSE [s1 EXCEPT !.running = FALSE]

\* Variant of _finish() that forgets to clear the running flag.
FinishKeepsRunning(s, c) ==
    IF ~Valid(s, c) THEN s
    ELSE OnFinished(s, c.run, "finish")

\* Variant of _finish() without the validity check.
FinishUnchecked(s, c) ==
    OnFinished([s EXCEPT !.running = FALSE], c.run, "finish")

\* _finish()
Finish(s, c) ==
    IF ~Valid(s, c) THEN s
    ELSE OnFinished([s EXCEPT !.running = FALSE], c.run, "finish")

\* Variant of _after_extras() without the early return of the auto branch.
AfterExtrasFallsThrough(s, c) ==
    IF ~Valid(s, c) THEN s
    ELSE IF c.auto THEN Finish(Schedule(s, Closure("auto", c, 0)), c)
    ELSE Finish(s, c)

\* Variant of _after_extras() that ignores auto_mode.
AfterExtrasAlwaysAuto(s, c) ==
    IF ~Valid(s, c) THEN s
    ELSE Schedule(s, Closure("auto", c, 0))

\* _after_extras()
AfterExtras(s, c) ==
    IF ~Valid(s, c) THEN s
    ELSE IF c.auto THEN Schedule(s, Closure("auto", c, 0))
    ELSE Finish(s, c)

\* _do_extras()
DoExtras(s, c) ==
    IF ~Valid(s, c) THEN s
    ELSE AfterExtras(Emit(s, "extras", c.run, ""), c)

\* _after_hints()
AfterHints(s, c) ==
    IF ~Valid(s, c) THEN s
    ELSE Schedule(s, Closure("do_extras", c, 0))

\* _do_hints()
DoHints(s, c) ==
    IF ~Valid(s, c) THEN s
    ELSE AfterHints(Emit(s, "hints", c.run, ""), c)

\* _after_repeats()
AfterRepeats(s, c) ==
    IF ~Valid(s, c) THEN s
    ELSE Schedule(s, Closure("do_hints", c, 0))

\* Variant of _after_one() that counts one repeat too many.
AfterOneOffByOne(s, c) ==
    IF ~Valid(s, c) THEN s
    ELSE IF c.n_left > 0 THEN Schedule(s, Closure("play_n", c, c.n_left - 1))
    ELSE AfterRepeats(s, c)

\* _after_one()
AfterOne(s, c) ==
    IF ~Valid(s, c) THEN s
    ELSE IF c.n_left > 1 THEN Schedule(s, Closure("play_n", c, c.n_left - 1))
    ELSE AfterRepeats(s, c)

\* Variant of _play_n() that swallows the exception of tts_play and stops.
PlayNNoFallback(s, c, how) ==
    IF ~Valid(s, c) THEN s
    ELSE LET s1 == Emit(s, "play", c.run, c.glyph)
         IN  CASE how = "sync" -> AfterOne(s1, c)
               [] how = "async" ->
                    [s1 EXCEPT !.conts = @ \cup {Closure("after_one", c, c.n_left)}]
               [] OTHER -> s1

\* _play_n(n_left); how: what tts_play does with _after_one.
PlayN(s, c, how) ==
    IF ~Valid(s, c) THEN s
    ELSE LET s1 == Emit(s, "play", c.run, c.glyph)
         IN  CASE how = "sync" -> AfterOne(s1, c)
               [] how = "async" ->
                    [s1 EXCEPT !.conts = @ \cup {Closure("after_one", c, c.n_left)}]
               [] OTHER -> Schedule(s1, Closure("after_one", c, c.n_left))

\* The closure queued for the auto-advance delay:
\*   lambda: (self._on_autoadvance(), _finish())
AutoAdvanceStep(s, c) == Finish(Emit(s, "auto", c.run, ""), c)

\* Variant of start() that does not cancel the run before it.
StartWithoutCancel(s, glyph, repeat_count, pre_first_ms, auto_mode, how) ==
    LET run == Len(s.runs) + 1
        s2 == [s EXCEPT !.running = TRUE,
                        !.runs = Append(@, [glyph |-> glyph,
                                            repeat_count |-> repeat_count,
                                            auto |-> auto_mode])]
        c == [run |-> run, token |-> s.gen, glyph |-> glyph, auto |-> auto_mode]
        first == Closure("play_n", c, Max(1, repeat_count))
    IN  IF pre_first_ms > 0 THEN Schedule(s2, first)
        ELSE PlayN(s2, first, how)

\* Variant of start() that puts the first play on a timer whatever the delay.
StartAlwaysDeferred(s, glyph, repeat_count, pre_first_ms, auto_mode, how) ==
    LET s1 == CancelOp(s)
        run == Len(s.runs) + 1
        s2 == [s1 EXCEPT !.running = TRUE,
                         !.runs = Append(@, [glyph |-> glyph,
                                             repeat_count |-> repeat_count,
                                             auto |-> auto_mode])]
        c == [run |-> run, token |-> s1.gen, glyph |-> glyph, auto |-> auto_mode]
    IN  Schedule(s2, Closure("play_n", c, Max(1, repeat_count)))

\* start(glyph, repeat_count, delays, auto_mode)
StartOp(s, glyph, repeat_count, pre_first_ms, auto_mode, how) ==
    LET s1 == CancelOp(s)
        run == Len(s.runs) + 1
        s2 == [s1 EXCEPT !.running = TRUE,
                         !.runs = Append(@, [glyph |-> glyph,
                                             repeat_count |-> repeat_count,
                                             auto |-> auto_mode])]
        c == [run |-> run, token |-> s1.gen, glyph |-> glyph, auto |-> auto_mode]
        first == Closure("play_n", c, Max(1, repeat_count))
    IN  IF pre_first_ms > 0 THEN Schedule(s2, first)
        ELSE PlayN(s2, first, how)

\* A queued timer closure fires.
FireOp(s, c, how) ==
    LET s1 == [s EXCEPT !.timers = @ \ {c}]
    IN  CASE c.kind = "play_n" -> PlayN(s1, c, how)
          [] c.kind = "after_one" -> AfterOne(s1, c)
          [] c.kind = "do_hints" -> DoHints(s1, c)
          [] c.kind = "do_extras" -> DoExtras(s1, c)
          [] OTHER -> AutoAdvanceStep(s1, c)

\* The TTS backend calls the continuation it was given.
DoneOp(s, c) == AfterOne([s EXCEPT !.conts = @ \ {c}], c)

\* An exception propagates out of a closure run by QTimer.singleShot.  The
\* application installs no sys.excepthook, so PyQt6 ends the process (qFatal).
Escape(s) == [s EXCEPT !.escaped = TRUE]

\* _do_hints() / _do_extras() when the reveal callback raises:
\*   try: self._on_reveal_...()  finally: _after_...()
\* has no except clause: the finally block runs, then the exception goes on.
DoHintsRaising(s, c) ==
    IF ~Valid(s, c) THEN s
    ELSE Escape(DoHints(s, c))

DoExtrasRaising(s, c) ==
    IF ~Valid(s, c) THEN s
    ELSE Escape(DoExtras(s, c))

\* The auto-advance closure when self._on_autoadvance() raises: the tuple
\* (self._on_autoadvance(), _finish()) is left before _finish() is evaluated.
AutoAdvanceRaising(s, c) == Escape(Emit(s, "auto", c.run, ""))

\* A queued timer closure fires; out: what the auto-advance callback does.
FireAutoOp(s, c, how, out) ==
    LET s1 == [s EXCEPT !.timers = @ \ {c}]
    IN  IF out = "raise" /\ c.kind = "auto" THEN AutoAdvanceRaising(s1, c)
        ELSE FireOp(s, c, how)

\* A queued timer closure fires; out: what a reveal callback does when called.
FireRevealOp(s, c, how, out) ==
    LET s1 == [s EXCEPT !.timers = @ \ {c}]
    IN  CASE out = "raise" /\ c.kind = "do_hints" -> DoHintsRaising(s1, c)
          [] out = "raise" /\ c.kind = "do_extras" -> DoExtrasRaising(s1, c)
          [] OTHER -> FireOp(s, c, how)

\* ------------------------------------------------------------------ strings

\* A Python str is the sequence of its code points; a character is a string of
\* length one.  None, where a function returns "str | None" and never returns
\* the empty string, is the empty sequence.

\* Code points that str.strip() removes (str.isspace).
Whitespace ==
    {9, 10, 11, 12, 13, 28, 29, 30, 31, 32, 133, 160, 5760, 8232, 8233, 8239,
     8287, 12288} \cup (8192..8202)

RECURSIVE LStrip(_)
LStrip(s) ==
    IF s # <<>> /\ Head(s) \in Whitespace THEN LStrip(Tail(s)) ELSE s

RECURSIVE RStrip(_)
RStrip(s) ==
    IF s # <<>> /\ s[Len(s)] \in Whitespace
    THEN RStrip(SubSeq(s, 1, Len(s) - 1))
    ELSE s

\* str.strip()
Strip(s) == RStrip(LStrip(s))

\* str.lower(), on the letters the mode texts are spelt with.
Lower(s) == [i \in 1..Len(s) |-> IF s[i] \in 65..90 THEN s[i] + 32 ELSE s[i]]

\* s[i] of Python, i counted from 0.
CharAt(s, i) == <<s[i + 1]>>

\* "ㄱ" (U+3131), "ㄴ" (U+3134), "ㅏ" (U+314F), "ㅣ" (U+3163),
\* "∅" (U+2205), " " (U+0020), "나" (U+B098), "x" (U+0078).
KIYEOK == <<12593>>

NIEUN == <<12596>>

JAMO_A == <<12623>>

JAMO_I == <<12643>>

SENTINEL == <<8709>>

SPACE == <<32>>

SYLLABLE_NA == <<45208>>

LATIN_X == <<120>>

\* ------------------------------------------------------------ Hangul tables

\* CHOSEONG of hangul_compose.py: the 19 leading consonants.
CHOSEONG ==
    << <<12593>>, <<12594>>, <<12596>>, <<12599>>, <<12600>>, <<12601>>,
       <<12609>>, <<12610>>, <<12611>>, <<12613>>, <<12614>>, <<12615>>,
       <<12616>>, <<12617>>, <<12618>>, <<12619>>, <<12620>>, <<12621>>,
       <<12622>> >>

\* JUNGSEONG of hangul_compose.py: the 21 vowels.
JUNGSEONG ==
    << <<12623>>, <<12624>>, <<12625>>, <<12626>>, <<12627>>, <<12628>>,
       <<12629>>, <<12630>>, <<12631>>, <<12632>>, <<12633>>, <<12634>>,
       <<12635>>, <<12636>>, <<12637>>, <<12638>>, <<12639>>, <<12640>>,
       <<12641>>, <<12642>>, <<12643>> >>

\* JONGSEONG of hangul_compose.py: "" (no final) and the 27 trailing consonants.
JONGSEONG ==
    << <<>>, <<12593>>, <<12594>>, <<12595>>, <<12596>>, <<12597>>, <<12598>>,
       <<12599>>, <<12601>>, <<12602>>, <<12603>>, <<12604>>, <<12605>>,
       <<12606>>, <<12607>>, <<12608>>, <<12609>>, <<12610>>, <<12612>>,
       <<12613>>, <<12614>>, <<12615>>, <<12616>>, <<12618>>, <<12619>>,
       <<12620>>, <<12621>>, <<12622>> >>

\* _COMPAT_CHO of study_item_repository.py.
COMPAT_CHO ==
    << <<12593>>, <<12594>>, <<12596>>, <<12599>>, <<12600>>, <<12601>>,
       <<12609>>, <<12610>>, <<12611>>, <<12613>>, <<12614>>, <<12615>>,
       <<12616>>, <<12617>>, <<12618>>, <<12619>>, <<12620>>, <<12621>>,
       <<12622>> >>

\* _COMPAT_JUNG of study_item_repository.py.
COMPAT_JUNG ==
    << <<12623>>, <<12624>>, <<12625>>, <<12626>>, <<12627>>, <<12628>>,
       <<12629>>, <<12630>>, <<12631>>, <<12632>>, <<12633>>, <<12634>>,
       <<12635>>, <<12636>>, <<12637>>, <<12638>>, <<12639>>, <<12640>>,
       <<12641>>, <<12642>>, <<12643>> >>

\* dict.get of _CHO_MAP, _JUNG_MAP, _JONG_MAP ({j: i for i, j in enumerate(.)});
\* -1 stands for None.
IndexIn(table, s) ==
    IF \E i \in 1..Len(table) : table[i] = s
    THEN (CHOOSE i \in 1..Len(table) : table[i] = s) - 1
    ELSE -1

\* chr(codepoint) inside try/except: "" when chr() raises.
Chr(codepoint) ==
    IF codepoint \in 0..1114111 THEN <<codepoint>> ELSE <<>>

\* Variant of compose_lvt() with v_count and t_count exchanged.
ComposeSwappedCounts(lead, vowel, tail) ==
    LET l == Strip(lead)
        v == Strip(vowel)
        t == Strip(tail)
        li == IndexIn(CHOSEONG, l)
        vi == IndexIn(JUNGSEONG, v)
        ti == IndexIn(JONGSEONG, t)
    IN  IF l = <<>> \/ v = <<>> THEN <<>>
        ELSE IF li = -1 \/ vi = -1 \/ ti = -1 THEN <<>>
        ELSE Chr(44032 + (li * 28 + vi) * 21 + ti)

\* compose_lvt(lead, vowel, tail); 0xAC00 = 44032.
compose_lvt(lead, vowel, tail) ==
    LET l == Strip(lead)
        v == Strip(vowel)
        t == Strip(tail)
        li == IndexIn(CHOSEONG, l)
        vi == IndexIn(JUNGSEONG, v)
        ti == IndexIn(JONGSEONG, t)
    IN  IF l = <<>> \/ v = <<>> THEN <<>>
        ELSE IF li = -1 \/ vi = -1 \/ ti = -1 THEN <<>>
        ELSE Chr(44032 + (li * 21 + vi) * 28 + ti)

\* compose_cv(lead, vowel)
compose_cv(lead, vowel) == compose_lvt(lead, vowel, <<>>)

\* Variant of _decompose_precomposed_syllable() that takes the syllable index
\* for L * 21 + V, as if syllables had no block of 28 finals.
DecomposeWithoutFinals(s) ==
    IF Len(s) # 1 THEN <<>>
    ELSE LET code == s[1]
             syllable_index == code - 44032
             cho_index == syllable_index \div 21
             jung_index == syllable_index % 21
         IN  IF code < 44032 \/ code > 55203 THEN <<>>
             ELSE IF /\ 0 <= cho_index /\ cho_index < Len(COMPAT_CHO)
                     /\ 0 <= jung_index /\ jung_index < Len(COMPAT_JUNG)
                  THEN <<COMPAT_CHO[cho_index + 1], COMPAT_JUNG[jung_index + 1]>>
                  ELSE <<>>

\* _decompose_precomposed_syllable(s): (C, V), or None as the empty tuple.
\* 0xAC00 = 44032, 0xD7A3 = 55203.
decompose_precomposed_syllable(s) ==
    IF Len(s) # 1 THEN <<>>
    ELSE LET code == s[1]
             syllable_index == code - 44032
             cho_index == syllable_index \div 588
             jung_index == (syllable_index % 588) \div 28
         IN  IF code < 44032 \/ code > 55203 THEN <<>>
             ELSE IF /\ 0 <= cho_index /\ cho_index < Len(COMPAT_CHO)
                     /\ 0 <= jung_index /\ jung_index < Len(COMPAT_JUNG)
                  THEN <<COMPAT_CHO[cho_index + 1], COMPAT_JUNG[jung_index + 1]>>
                  ELSE <<>>

\* --------------------------------------------------------------- repository

\* What yaml.safe_load returns: None, a scalar that is not a string, a string,
\* a list, or a mapping from keys to values.
YNone == [t |-> "none"]

YInt == [t |-> "int"]

YStr(s) == [t |-> "str", s |-> s]

YList(items) == [t |-> "list", items |-> items]

YDict(map) == [t |-> "dict", map |-> map]

\* dict.get(k)
Get(mapping, k) == IF k \in DOMAIN mapping.map THEN mapping.map[k] ELSE YNone

\* First position of a sequence of keys that satisfies Test, 0 when none does.
FirstKey(keys, Test(_)) ==
    IF \E i \in 1..Len(keys) : Test(keys[i])
    THEN CHOOSE i \in 1..Len(keys) :
            Test(keys[i]) /\ \A j \in 1..(i - 1) : ~Test(keys[j])
    ELSE 0

\* A data file as _read_yaml finds it: absent, not readable as UTF-8, not
\* parsable as YAML, or parsed to a value.
read_yaml(file) == IF file.kind = "parsed" THEN file.value ELSE YNone

\* _as_nonempty_str(value)
as_nonempty_str(value) == IF value.t = "str" THEN Strip(value.s) ELSE <<>>

\* _pick_str(mapping, keys)
pick_str(mapping, keys) ==
    IF mapping.t # "dict" THEN <<>>
    ELSE LET Hit(k) == as_nonempty_str(Get(mapping, k)) # <<>>
             i == FirstKey(keys, Hit)
         IN  IF i = 0 THEN <<>> ELSE as_nonempty_str(Get(mapping, keys[i]))

\* _iter_items(container, preferred_keys)
iter_items(container, preferred_keys) ==
    IF container.t = "list" THEN container.items
    ELSE IF container.t = "dict"
    THEN LET keys == preferred_keys \o <<"items", "data", "list">>
             IsList(k) == Get(container, k).t = "list"
             i == FirstKey(keys, IsList)
         IN  IF i = 0 THEN <<>> ELSE Get(container, keys[i]).items
    ELSE <<>>

RECURSIVE Flatten(_)
Flatten(ss) == IF ss = <<>> THEN <<>> ELSE Head(ss) \o Flatten(Tail(ss))

\* A compact string of _load_syllable_pairs: "ㄱㅏ" style, else "가" style.
\* The pairs it appends: one or none.
CompactPairs(s) ==
    IF Len(s) >= 2 THEN << <<CharAt(s, 0), CharAt(s, 1)>> >>
    ELSE LET decomposed == decompose_precomposed_syllable(s)
         IN  IF decomposed # <<>> THEN <<decomposed>> ELSE <<>>

\* One turn of the loop of _load_syllable_pairs: the pairs appended for item.
SyllableItemPairs(item) ==
    LET s == as_nonempty_str(item)
    IN  IF s # <<>> THEN CompactPairs(s)
        ELSE IF item.t = "dict"
        THEN LET c == pick_str(item, <<"c", "consonant", "onset", "initial", "cho">>)
                 v == pick_str(item, <<"v", "vowel", "nucleus", "medial", "jung">>)
                 cv == pick_str(item, <<"cv", "text", "value", "syllable">>)
             IN  IF c # <<>> /\ v # <<>> THEN << <<c, v>> >>
                 ELSE IF cv # <<>> THEN CompactPairs(cv)
                 ELSE <<>>
        ELSE <<>>

\* _load_syllable_pairs(), file: the state of syllables.yaml.
load_syllable_pairs(file) ==
    LET items == iter_items(read_yaml(file), <<"syllables", "syllable", "cv", "pairs">>)
        found == Flatten([i \in 1..Len(items) |-> SyllableItemPairs(items[i])])
    IN  IF found = <<>> THEN << <<KIYEOK, JAMO_A>> >> ELSE found

\* One turn of the loop of _load_vowel_pairs / _load_consonant_pairs: the
\* glyphs taken from item, one or none.
GlyphOfItem(item, keys) ==
    LET s == as_nonempty_str(item)
    IN  IF s # <<>> THEN <<s>>
        ELSE IF item.t = "dict"
        THEN LET g == pick_str(item, keys)
             IN  IF g # <<>> THEN <<g>> ELSE <<>>
        ELSE <<>>

\* _load_vowel_pairs(), file: the state of vowels.yaml.
load_vowel_pairs(file) ==
    LET items == iter_items(read_yaml(file), <<"vowels", "vowel">>)
        keys == <<"v", "vowel", "glyph", "text", "value">>
        glyphs == Flatten([i \in 1..Len(items) |-> GlyphOfItem(items[i], keys)])
        out == [i \in 1..Len(glyphs) |-> <<SENTINEL, glyphs[i]>>]
    IN  IF out = <<>> THEN << <<SENTINEL, JAMO_A>> >> ELSE out

\* _load_consonant_pairs(), file: the state of consonants.yaml.
load_consonant_pairs(file) ==
    LET items == iter_items(read_yaml(file), <<"consonants", "consonant">>)
        keys == <<"c", "consonant", "glyph", "text", "value">>
        glyphs == Flatten([i \in 1..Len(items) |-> GlyphOfItem(items[i], keys)])
        out == [i \in 1..Len(glyphs) |-> <<glyphs[i], SENTINEL>>]
    IN  IF out = <<>> THEN << <<KIYEOK, SENTINEL>> >> ELSE out

\* The mode texts: "Syllables", "Vowels", "Consonants" of the mode selector,
\* and what else a caller may pass: "" and " VOWELS ".
MODE_SYLLABLES == <<83, 121, 108, 108, 97, 98, 108, 101, 115>>

MODE_VOWELS == <<86, 111, 119, 101, 108, 115>>

MODE_CONSONANTS == <<67, 111, 110, 115, 111, 110, 97, 110, 116, 115>>

MODE_EMPTY == <<>>

MODE_VOWELS_PADDED == <<32, 86, 79, 87, 69, 76, 83, 32>>

ModeTexts ==
    {MODE_SYLLABLES, MODE_VOWELS, MODE_CONSONANTS, MODE_EMPTY, MODE_VOWELS_PADDED}

\* (mode_text or "").strip().lower(), and the branch pairs_for_mode takes on it:
\* "vowels", "consonants", anything else.
ModeKey(mode_text) ==
    LET m == Lower(Strip(mode_text))
    IN  IF m = Lower(MODE_VOWELS) THEN "vowels"
        ELSE IF m = Lower(MODE_CONSONANTS) THEN "consonants"
        ELSE "syllables"

\* pairs_for_mode(mode_text), file: the state of the data file the mode reads.
pairs_for_mode(mode_text, file) ==
    LET m == ModeKey(mode_text)
    IN  IF m = "vowels" THEN load_vowel_pairs(file)
        ELSE IF m = "consonants" THEN load_consonant_pairs(file)
        ELSE load_syllable_pairs(file)

\* ---------------------------------------------------------------- data files

\* Entries of one data file list.
MaxItems == 3

\* Entries of syllables.yaml: "ㄱㅏ", "나", "ㄱ" (neither compact nor a
\* syllable), {c: "ㄴ", v: "ㅏ"}, {c: "ㄴ"} (no vowel field).
SyllableItems ==
    {YStr(KIYEOK \o JAMO_A), YStr(SYLLABLE_NA), YStr(KIYEOK),
     YDict([c |-> YStr(NIEUN), v |-> YStr(JAMO_A)]),
     YDict([c |-> YStr(NIEUN)])}

\* Entries of vowels.yaml: "ㅏ", " ㅣ", " " (blank), {vowel: "ㅣ"},
\* {c: "ㄱ"} (no vowel field).
VowelItems ==
    {YStr(JAMO_A), YStr(SPACE \o JAMO_I), YStr(SPACE),
     YDict([vowel |-> YStr(JAMO_I)]),
     YDict([c |-> YStr(KIYEOK)])}

\* Entries of consonants.yaml: "ㄱ", "ㄴ ", 7 (not a string), {c: "ㄴ"},
\* {v: "ㅏ"} (no consonant field).
ConsonantItems ==
    {YStr(KIYEOK), YStr(NIEUN \o SPACE), YInt,
     YDict([c |-> YStr(NIEUN)]),
     YDict([v |-> YStr(JAMO_A)])}

ItemsOf(key) ==
    IF key = "vowels" THEN VowelItems
    ELSE IF key = "consonants" THEN ConsonantItems
    ELSE SyllableItems

ListsOver(items, n) == UNION {[1..k -> items] : k \in 0..n}

\* The states of the data file "<key>.yaml": absent, not UTF-8, not YAML, or
\* parsed to: nothing (an empty file), a scalar, a list of entries, a mapping
\* with the list under the key of the mode, under "items", or under a key the
\* repository does not know.
DataFiles(key) ==
    {[kind |-> "missing"], [kind |-> "undecodable"], [kind |-> "unparsable"]}
    \cup {[kind |-> "parsed", value |-> v] : v \in
            {YNone, YInt, YStr(LATIN_X)}
            \cup {YList(l) : l \in ListsOver(ItemsOf(key), MaxItems)}
            \cup {YDict(k :> YList(l)) :
                    k \in {key, "items", "entries"},
                    l \in ListsOver(ItemsOf(key), 1)}}

\* What self.repo.pairs_for_mode(mode_text) may return, per mode text.
RepoReturns ==
    [mode_text \in ModeTexts |->
        {pairs_for_mode(mode_text, file) : file \in DataFiles(ModeKey(mode_text))}]

\* The outcomes of self.repo.pairs_for_mode(mode_text): a list of pairs, or an
\* exception (the directory cannot be examined, an injected repository fails).
RepoOutcomes(mode_text) ==
    {[raised |-> FALSE, pairs |-> p] : p \in RepoReturns[mode_text]}
    \cup {[raised |-> TRUE, pairs |-> <<>>]}

\* ---------------------------------------------------------------- navigator

\* No call of the navigator yet.
NoCall ==
    [op |-> "none", mode |-> "syllables", reset_index |-> FALSE, delta |-> 0,
     repo |-> "none", error |-> "", label |-> <<>>]

\* No call of the composer yet.
NoCompose ==
    [lead |-> <<>>, vowel |-> <<>>, tail |-> <<>>, composer |-> "none",
     syllable |-> <<>>, decomposed |-> FALSE, pair |-> <<>>]

\* reload_for_mode(mode_text, reset_index=...); res: the outcome of
\* self.repo.pairs_for_mode(mode_text).  index is never negative, so
\* self.pairs[self.index] raises IndexError exactly when index >= len(pairs);
\* the fields assigned before that keep their new values.
reload_for_mode(n, mode_text, reset_index, res) ==
    LET ps == IF res.raised THEN <<>> ELSE res.pairs
        ix == IF reset_index THEN 0 ELSE n.index
    IN  IF ps # <<>>
        THEN IF ix < Len(ps)
             THEN [n EXCEPT !.pairs = ps, !.index = ix,
                            !.current_consonant = ps[ix + 1][1],
                            !.current_vowel = ps[ix + 1][2]]
             ELSE [n EXCEPT !.pairs = ps, !.index = ix, !.error = "IndexError"]
        ELSE [n EXCEPT !.pairs = ps, !.index = ix,
                       !.current_consonant = KIYEOK,
                       !.current_vowel = JAMO_A]

\* Variant of ensure_loaded() that reloads whether or not a list is held.
EnsureLoadedAlways(n, mode_text, res) ==
    reload_for_mode(n, mode_text, TRUE, res)

\* ensure_loaded(mode_text)
ensure_loaded(n, mode_text, res) ==
    IF n.pairs = <<>> THEN reload_for_mode(n, mode_text, TRUE, res) ELSE n

\* Variant of advance() that stops at the ends of the list.
AdvanceSaturating(n, delta, mode_text, res) ==
    LET n1 == ensure_loaded(n, mode_text, res)
        to == n1.index + delta
        ix == IF to < 0 THEN 0
              ELSE IF to >= Len(n1.pairs) THEN Len(n1.pairs) - 1 ELSE to
    IN  IF n1.error # "" \/ n1.pairs = <<>> THEN n1
        ELSE [n1 EXCEPT !.index = ix,
                        !.current_consonant = n1.pairs[ix + 1][1],
                        !.current_vowel = n1.pairs[ix + 1][2]]

\* Variant of advance() that moves the index and leaves the current pair.
AdvanceIndexOnly(n, delta, mode_text, res) ==
    LET n1 == ensure_loaded(n, mode_text, res)
    IN  IF n1.error # "" \/ n1.pairs = <<>> THEN n1
        ELSE [n1 EXCEPT !.index = (n1.index + delta) % Len(n1.pairs)]

\* advance(delta, mode_text=...); Python's % with a positive modulus is the
\* non-negative remainder, as % here.
advance(n, delta, mode_text, res) ==
    LET n1 == ensure_loaded(n, mode_text, res)
        ix == (n1.index + delta) % Len(n1.pairs)
    IN  IF n1.error # "" \/ n1.pairs = <<>> THEN n1
        ELSE [n1 EXCEPT !.index = ix,
                        !.current_consonant = n1.pairs[ix + 1][1],
                        !.current_vowel = n1.pairs[ix + 1][2]]

\* current_pair()
current_pair(n) == <<n.current_consonant, n.current_vowel>>

\* current_index()
current_index(n) == n.index

\* ------------------------------------------------------------ pronunciation

\* The method names pronounce_syllable looks for on the backend, in order.
BackendMethods == <<"pronounce_syllable", "pronounce", "speak", "play">>

\* What a backend method does: it is absent; it is HybridTTSBackend's; it
\* takes on_complete and calls it before returning; it takes on_complete and
\* calls it on a later tick; it raises before, or after, calling on_complete;
\* it rejects the on_complete keyword (TypeError) and works, or raises,
\* when called without it.
MethodBehaviours ==
    {"absent", "hybrid", "calls", "calls_later", "raises_before",
     "raises_after", "rejects_kw", "rejects_kw_raises"}

\* What the caller passes as on_complete.
OnCompleteKinds == {"none", "returns", "raises"}

\* What the cloud synthesis and the system voice do inside HybridTTSBackend.
TtsOutcomes == {"ok", "raise"}

DefaultEnv == [test_mode |-> FALSE, cloud |-> "ok", fallback |-> "ok"]

NoPronounce ==
    [called |-> FALSE, backend |-> [i \in 1..4 |-> "absent"],
     env |-> DefaultEnv, on_complete |-> "none",
     spoken |-> 0, completed |-> 0, scheduled |-> 0, held |-> 0]

\* _safe_complete(): on_complete is called unless it is None; what it raises
\* is swallowed.
safe_complete(p) ==
    IF p.on_complete = "none" THEN p
    ELSE [p EXCEPT !.completed = @ + 1]

\* QTimer.singleShot(0, _safe_complete)
ScheduleComplete(p) == [p EXCEPT !.scheduled = @ + 1]

\* HybridTTSBackend.pronounce_syllable(glyph, on_complete=_safe_complete):
\* in test mode the callback at once; otherwise the cloud voice, on its
\* failure the system voice, whose failure is swallowed, then the callback.
hybrid_pronounce_syllable(p, env) ==
    IF env.test_mode THEN safe_complete(p)
    ELSE IF env.cloud = "ok" \/ env.fallback = "ok"
         THEN safe_complete([p EXCEPT !.spoken = @ + 1])
         ELSE safe_complete(p)

\* except Exception: QTimer.singleShot(0, _safe_complete)
Recover(p) == ScheduleComplete(p)

\* The index of the first method the backend has, 0 when it has none.
FirstMethod(backend) ==
    IF \A i \in 1..Len(BackendMethods) : backend[i] = "absent" THEN 0
    ELSE CHOOSE i \in 1..Len(BackendMethods) :
            /\ backend[i] # "absent"
            /\ \A j \in 1..(i - 1) : backend[j] = "absent"

\* PronunciationController.pronounce_syllable(glyph, on_complete)
pronounce_syllable(p0, backend, env, on_complete) ==
    LET p == [p0 EXCEPT !.called = TRUE, !.backend = backend, !.env = env,
                        !.on_complete = on_complete]
        i == FirstMethod(backend)
        spoke == [p EXCEPT !.spoken = @ + 1]
    IN  IF i = 0 THEN ScheduleComplete(p)
        ELSE CASE backend[i] = "hybrid" -> hybrid_pronounce_syllable(p, env)
               [] backend[i] = "calls" -> safe_complete(spoke)
               [] backend[i] = "calls_later" -> [spoke EXCEPT !.held = @ + 1]
               [] backend[i] = "raises_before" -> Recover(p)
               [] backend[i] = "raises_after" -> Recover(safe_complete(spoke))
               [] backend[i] = "rejects_kw" -> ScheduleComplete(spoke)
               [] backend[i] = "rejects_kw_raises" -> Recover(p)

\* ---------------------------------------------------------------- playback UI

\* The widgets set_controls_for_repeats_locked() enables and disables.
LockedControls ==
    {"chipPronounce", "chipNext", "chipPrev", "chipSlow",
     "buttonNext", "buttonPrev", "comboMode"}

\* The widgets _set_bottom_chips_enabled() enables and disables.
BottomChips == {"chipPrev", "chipNext", "chipSlow", "chipPronounce", "chipAuto"}

\* PlaybackUiController after MainWindowController has wired the bottom
\* controls: init_chips(), then set_controls_for_repeats_locked(window, False).
\* enabled: isEnabled() of each widget; seen_running: the finished callback
\* was once called while is_running() was true; last_nav: the item callback
\* called last.
InitUi ==
    [has_seq |-> FALSE, auto_mode_enabled |-> FALSE, chips_armed |-> FALSE,
     chip_state |-> "PLAY",
     enabled |-> [w \in LockedControls \cup BottomChips |-> w # "chipAuto"],
     seen_running |-> FALSE, last_nav |-> "none"]

\* set_controls_for_repeats_locked(window, locked)
set_controls_for_repeats_locked(u, locked) ==
    [u EXCEPT !.enabled = [w \in DOMAIN @ |->
                              IF w \in LockedControls THEN ~locked ELSE @[w]]]

\* _set_bottom_chips_enabled(enabled, keep_listen_enabled, keep_auto_enabled)
set_bottom_chips_enabled(u, enabled, keep_listen_enabled, keep_auto_enabled) ==
    [u EXCEPT !.enabled = [w \in DOMAIN @ |->
        CASE w \in {"chipPrev", "chipNext", "chipSlow"} -> enabled
          [] w = "chipPronounce" -> IF keep_listen_enabled THEN TRUE ELSE enabled
          [] w = "chipAuto" -> IF keep_auto_enabled THEN TRUE ELSE enabled
          [] OTHER -> @[w]]]

\* _on_playback_finished(); is_running: what is_running() returns meanwhile.
on_playback_finished(u, is_running) ==
    LET u1 == set_controls_for_repeats_locked(
                  [u EXCEPT !.seen_running = @ \/ is_running], FALSE)
    IN  IF u1.auto_mode_enabled
        THEN set_bottom_chips_enabled(u1, FALSE, FALSE, TRUE)
        ELSE IF u1.chips_armed
        THEN set_bottom_chips_enabled(u1, TRUE, TRUE, TRUE)
        ELSE set_bottom_chips_enabled(u1, FALSE, TRUE, FALSE)

\* The sequencer went from s to t in one of its methods: the registered
\* finished callback has run if the method invoked it.  cancel() and
\* _finish() invoke it last, so is_running() meanwhile is that of t.
Notified(u, s, t) ==
    IF \E i \in (Len(s.log) + 1)..Len(t.log) : t.log[i].ev = "finished"
    THEN on_playback_finished(u, t.running)
    ELSE u

\* self._playback_seq.cancel(), when there is a sequencer
cancel_playback(x) ==
    IF x.u.has_seq
    THEN LET t == CancelOp(x.s)
         IN  [s |-> t, u |-> Notified(x.u, x.s, t)]
    ELSE x

\* start_playback(auto_mode); repeats: what get_repeats() returns, pre: the
\* pre_first_ms of get_delays(), how: what tts_play does with its callback.
\* The glyph is the current item's and is never empty.
start_playback(x, auto_mode, repeats, pre, how) ==
    LET u1 == [x.u EXCEPT !.has_seq = TRUE]
        u2 == set_bottom_chips_enabled(u1, FALSE, FALSE, TRUE)
        u3 == IF repeats > 1 THEN set_controls_for_repeats_locked(u2, TRUE) ELSE u2
        glyph == IF Len(x.s.runs) % 2 = 0 THEN "ga" ELSE "na"
    IN  [s |-> StartOp(x.s, glyph, repeats, pre, auto_mode, how),
         u |-> Notified(u3, x.s, CancelOp(x.s))]

\* on_listen_clicked()
on_listen_clicked(x, repeats, pre, how) ==
    LET x1 == [x EXCEPT !.u.chips_armed = TRUE]
        x2 == start_playback(x1, FALSE, repeats, pre, how)
    IN  [x2 EXCEPT !.u.chip_state = "REPEAT"]

\* on_chip_next() / on_chip_prev(); nav: the item callback it calls
on_chip(x, nav, repeats, pre, how) ==
    LET x1 == cancel_playback(x)
        x2 == [x1 EXCEPT !.u.last_nav = nav]
    IN  start_playback(x2, FALSE, repeats, pre, how)

\* on_auto_clicked()
on_auto_clicked(x, repeats, pre, how) ==
    LET x1 == [x EXCEPT !.u.auto_mode_enabled = ~@]
    IN  IF ~x1.u.auto_mode_enabled
        THEN LET x2 == cancel_playback(x1)
                 u3 == set_controls_for_repeats_locked(x2.u, FALSE)
             IN  [x2 EXCEPT !.u = IF u3.chips_armed
                                  THEN set_bottom_chips_enabled(u3, TRUE, TRUE, TRUE)
                                  ELSE set_bottom_chips_enabled(u3, FALSE, TRUE, FALSE)]
        ELSE LET x2 == [x1 EXCEPT !.u.chip_state = "REPEAT"]
                 x3 == [x2 EXCEPT !.u = set_bottom_chips_enabled(@, FALSE, FALSE, TRUE)]
             IN  start_playback(x3, TRUE, repeats, pre, how)

\* _auto_advance(), the on_autoadvance callback of the sequencer
auto_advance(x, repeats, pre, how) ==
    LET x1 == [x EXCEPT !.u.last_nav = "next"]
    IN  IF x1.u.auto_mode_enabled
        THEN start_playback(x1, TRUE, repeats, pre, how)
        ELSE x1

\* _finish() of closure c, with the finished callback of the UI controller
UiFinish(x, c) ==
    LET t == Finish(x.s, c)
    IN  [s |-> t, u |-> Notified(x.u, x.s, t)]

\* Variant of the auto-advance closure that finishes before it advances.
UiAutoAdvanceFinishFirst(x, c, repeats, pre, how) ==
    LET x1 == UiFinish(x, c)
        x2 == [x1 EXCEPT !.s = Emit(@, "auto", c.run, "")]
    IN  auto_advance(x2, repeats, pre, how)

\* The closure queued for the auto-advance delay, on_autoadvance being
\* _auto_advance:  lambda: (self._on_autoadvance(), _finish())
UiAutoAdvanceStep(x, c, repeats, pre, how) ==
    LET x1 == [x EXCEPT !.s = Emit(@, "auto", c.run, "")]
    IN  UiFinish(auto_advance(x1, repeats, pre, how), c)

\* A queued timer closure of the UI controller's sequencer fires.
UiFireOp(x, c, how, repeats, pre) ==
    IF c.kind = "auto"
    THEN UiAutoAdvanceStep([x EXCEPT !.s.timers = @ \ {c}], c, repeats, pre, how)
    ELSE LET t == FireOp(x.s, c, how)
         IN  [s |-> t, u |-> Notified(x.u, x.s, t)]

\* --------------------------------------------------------------- orchestrator

\* PlaybackOrchestrator(pronounce_fn, lock_controls_fn, unlock_controls_fn):
\* the fields set by __init__, the timer, and the calls made so far of start(),
\* of the lock and unlock callbacks and of pronounce_fn.
InitOrchestrator ==
    [repeats |-> 1, running |-> FALSE, cycle_index |-> 0, timer_active |-> FALSE,
     starts |-> 0, locks |-> 0, unlocks |-> 0, pronounced |-> 0]

\* PlaybackConfig.normalised(), the repeats field
normalised(repeats) == IF repeats < 1 THEN 1 ELSE repeats

\* update_config(repeats, info_delay_ms, writing_delay_ms)
update_config(o, repeats) == [o EXCEPT !.repeats = normalised(repeats)]

\* stop()
orch_stop(o) ==
    LET was_running == o.running
        was_repeating == o.repeats > 1
        o1 == [o EXCEPT !.timer_active = FALSE, !.running = FALSE,
                        !.cycle_index = 0]
    IN  IF was_running /\ was_repeating
        THEN [o1 EXCEPT !.unlocks = @ + 1]
        ELSE o1

\* _advance(); out: pronounce_fn returns, or raises one of RuntimeError,
\* ValueError, TypeError
orch_advance(o, out) ==
    IF ~o.running THEN o
    ELSE LET n == IF o.repeats < 1 THEN 1 ELSE o.repeats
             i == o.cycle_index
         IN  IF i >= n
             THEN LET o1 == [o EXCEPT !.running = FALSE]
                  IN  IF n > 1 THEN [o1 EXCEPT !.unlocks = @ + 1] ELSE o1
             ELSE LET o1 == [o EXCEPT !.pronounced = @ + 1]
                  IN  IF out = "raise" THEN orch_stop(o1)
                      ELSE LET o2 == [o1 EXCEPT !.cycle_index = i + 1]
                           IN  IF o2.cycle_index < n
                               THEN [o2 EXCEPT !.timer_active = TRUE]
                               ELSE o2

\* start(glyph)
orch_start(o, out) ==
    LET o1 == orch_stop(o)
        o2 == [o1 EXCEPT !.cycle_index = 0, !.running = TRUE, !.starts = @ + 1]
        o3 == IF o2.repeats > 1 THEN [o2 EXCEPT !.locks = @ + 1] ELSE o2
    IN  orch_advance(o3, out)

\* ----------------------------------------------------------------- actions

\* The sequencer as its owner sets it up: constructed, completion callback
\* registered, nothing started.
InitSequencer ==
    /\ gen = 0
    /\ running = FALSE
    /\ timers = {}
    /\ conts = {}
    /\ log = <<>>
    /\ runs = <<>>
    /\ escaped = FALSE

\* SyllableNavigation(repo): the defaults of the dataclass fields.
InitNavigation ==
    /\ pairs = <<>>
    /\ index = 0
    /\ current_consonant = KIYEOK
    /\ current_vowel = JAMO_A
    /\ call = NoCall

\* PronunciationController(backend): nothing pronounced yet.
InitServices ==
    /\ pron = NoPronounce
    /\ ui = InitUi
    /\ orch = InitOrchestrator

Init ==
    /\ InitSequencer
    /\ InitNavigation
    /\ comp = NoCompose
    /\ InitServices

StartWith(glyphs, repeats, outcomes) ==
    /\ Len(runs) < MaxStarts
    /\ \E glyph \in glyphs, r \in repeats, pre \in PreFirstMs,
          auto \in BOOLEAN, how \in outcomes :
          Commit(StartOp(S, glyph, r, pre, auto, how))

Cancel ==
    /\ gen < MaxGen
    /\ Commit(CancelOp(S))

FireWith(outcomes) ==
    \E c \in timers : \E how \in outcomes : Commit(FireOp(S, c, how))

Done ==
    \E c \in conts : Commit(DoneOp(S, c))

\* The sequencer never inspects the glyph, it only hands it to tts_play: where
\* runs supersede each other, consecutive start() calls alternate the two
\* glyphs, so that the argument of a play tells the two runs apart.
GlyphAt(k) == IF k % 2 = 1 THEN "ga" ELSE "na"

\* Any interleaving of start(), cancel(), timers and play continuations, with
\* a play callback that honours its contract (calls on_done once, now or later).
Start == StartWith({GlyphAt(Len(runs) + 1)}, 1..MaxRepeat, {"sync", "async"})

Fire == FireWith({"sync", "async"})

Next == Start \/ Cancel \/ Fire \/ Done

Spec == Init /\ [][Next]_vars

\* One start() on a fresh sequencer and nothing else from outside: every glyph,
\* every repeat count from 0 (coerced to 1), a play callback that honours its
\* contract.
StartOnce ==
    /\ Len(runs) = 0
    /\ StartWith(Glyphs, 0..MaxRepeat, {"sync", "async"})

NextOnce == StartOnce \/ Fire \/ Done

SpecOnce == Init /\ [][NextOnce]_vars

\* One start() whose play callback always raises instead of calling its
\* continuation, and cancel() at any time before or after it.  The Qt event
\* loop fires every queued single-shot timer: weak fairness of FireRaise.
StartRaise ==
    /\ Len(runs) = 0
    /\ StartWith(Glyphs, 0..MaxRepeat, {"raise"})

FireRaise == FireWith({"raise"})

NextRaise == StartRaise \/ Cancel \/ FireRaise

SpecRaise == Init /\ [][NextRaise]_vars /\ WF_vars(FireRaise)

\* What an injected reveal callback does when called.
RevealOutcomes == {"return", "raise"}

\* One start() whose reveal callbacks may raise, never cancelled or superseded.
\* Nothing runs in a process that has ended.  The event loop fires every
\* queued timer and the TTS backend calls every continuation it holds.
FireReveal ==
    /\ ~escaped
    /\ \E c \in timers : \E how \in {"sync", "async"} : \E out \in RevealOutcomes :
          Commit(FireRevealOp(S, c, how, out))

DoneReveal == ~escaped /\ Done

NextReveal == StartOnce \/ FireReveal \/ DoneReveal

SpecReveal ==
    Init /\ [][NextReveal]_vars /\ WF_vars(FireReveal) /\ WF_vars(DoneReveal)

\* What the injected auto-advance callback does when called.
AutoOutcomes == {"return", "raise"}

\* One start() whose auto-advance callback may raise, never cancelled or
\* superseded; the play and reveal callbacks honour their contracts.
FireAuto ==
    /\ ~escaped
    /\ \E c \in timers : \E how \in {"sync", "async"} : \E out \in AutoOutcomes :
          Commit(FireAutoOp(S, c, how, out))

NextAuto == StartOnce \/ FireAuto \/ DoneReveal

SpecAuto ==
    Init /\ [][NextAuto]_vars /\ WF_vars(FireAuto) /\ WF_vars(DoneReveal)

\* The navigator as one value, error: the exception the call ends with.
N == [pairs |-> pairs, index |-> index, current_consonant |-> current_consonant,
      current_vowel |-> current_vowel, error |-> ""]

\* A call of the navigator ends: its fields and the record of the call.
CommitNav(n, op, mode_text, reset_index, delta, res) ==
    /\ pairs' = n.pairs
    /\ index' = n.index
    /\ current_consonant' = n.current_consonant
    /\ current_vowel' = n.current_vowel
    /\ call' = [op |-> op, mode |-> ModeKey(mode_text), reset_index |-> reset_index,
                delta |-> delta, repo |-> res, error |-> n.error, label |-> <<>>]
    /\ UNCHANGED <<seqvars, comp, svcvars>>

\* What the call did with the repository: not asked, it returned, it raised.
RepoUse(asked, res) ==
    IF ~asked THEN "none" ELSE IF res.raised THEN "raised" ELSE "returned"

\* NavigationController.on_mode_changed, or any caller of reload_for_mode.
Reload ==
    \E mode_text \in ModeTexts, reset_index \in BOOLEAN :
        \E res \in RepoOutcomes(mode_text) :
            CommitNav(reload_for_mode(N, mode_text, reset_index, res),
                      "reload", mode_text, reset_index, 0, RepoUse(TRUE, res))

\* Steps of one advance() call: beyond the length of any list, both ways.
Deltas == (0 - (MaxItems + 1))..(MaxItems + 1)

\* NavigationController.advance / go_next / go_prev; the repository is asked
\* only when the list is empty.
Advance ==
    \E delta \in Deltas, mode_text \in ModeTexts :
        \E res \in RepoOutcomes(mode_text) :
            /\ pairs # <<>> => res.raised
            /\ CommitNav(advance(N, delta, mode_text, res),
                         "advance", mode_text, pairs = <<>>, delta,
                         RepoUse(pairs = <<>>, res))

\* SyllableIndexUiController.update(): the label text f"{index}/{total}" as
\* the two numbers it shows; "0/0" when the navigator raises.
UpdateIndex ==
    \E mode_text \in ModeTexts :
        \E res \in RepoOutcomes(mode_text) :
            /\ pairs # <<>> => res.raised
            /\ LET n == ensure_loaded(N, mode_text, res)
                   total == Len(n.pairs)
                   shown == IF n.error # "" THEN <<0, 0>>
                            ELSE <<IF total > 0 THEN current_index(n) + 1 ELSE 0, total>>
               IN  /\ pairs' = n.pairs
                   /\ index' = n.index
                   /\ current_consonant' = n.current_consonant
                   /\ current_vowel' = n.current_vowel
                   /\ call' = [op |-> "update", mode |-> ModeKey(mode_text),
                               reset_index |-> (pairs = <<>>), delta |-> 0,
                               repo |-> RepoUse(pairs = <<>>, res), error |-> "",
                               label |-> shown]
                   /\ UNCHANGED <<seqvars, comp, svcvars>>

NextNav == Reload \/ Advance \/ UpdateIndex

SpecNav == Init /\ [][NextNav]_vars

\* The members of a table.
Range(table) == {table[i] : i \in 1..Len(table)}

\* Arguments of the composer: every member of its table, and "", " ㄱ", "x",
\* "ㅏ", "ㄱㄱ", "ㄳ" (a final only) for lead; "", "ㅏ ", "x", "ㄱ" for vowel;
\* " ", "x", "ㄸ" (a lead only), "ㄴ " for tail.
LeadInputs ==
    Range(CHOSEONG) \cup
    {<<>>, SPACE \o KIYEOK, LATIN_X, JAMO_A, KIYEOK \o KIYEOK, <<12595>>}

VowelInputs ==
    Range(JUNGSEONG) \cup {<<>>, JAMO_A \o SPACE, LATIN_X, KIYEOK}

TailInputs ==
    Range(JONGSEONG) \cup {SPACE, LATIN_X, <<12600>>, NIEUN \o SPACE}

\* The arguments of one call of the composer, nothing computed yet.
InitCompose ==
    /\ InitSequencer
    /\ InitNavigation
    /\ InitServices
    /\ \E lead \in LeadInputs, vowel \in VowelInputs, tail \in TailInputs :
          comp = [NoCompose EXCEPT !.lead = lead, !.vowel = vowel, !.tail = tail]

\* compose_lvt(lead, vowel, tail) is called.
ComposeLvt ==
    /\ comp.composer = "none"
    /\ comp' = [comp EXCEPT !.composer = "compose_lvt",
                            !.syllable = compose_lvt(comp.lead, comp.vowel, comp.tail)]
    /\ UNCHANGED <<seqvars, navvars, svcvars>>

\* compose_cv(lead, vowel) is called.
ComposeCv ==
    /\ comp.composer = "none"
    /\ comp.tail = <<>>
    /\ comp' = [comp EXCEPT !.composer = "compose_cv",
                            !.syllable = compose_cv(comp.lead, comp.vowel)]
    /\ UNCHANGED <<seqvars, navvars, svcvars>>

\* _decompose_precomposed_syllable is called on what the composer returned.
Decompose ==
    /\ comp.composer # "none"
    /\ ~comp.decomposed
    /\ comp' = [comp EXCEPT !.decomposed = TRUE,
                            !.pair = decompose_precomposed_syllable(comp.syllable)]
    /\ UNCHANGED <<seqvars, navvars, svcvars>>

NextCompose == ComposeLvt \/ ComposeCv \/ Decompose

SpecCompose == InitCompose /\ [][NextCompose]_vars

\* PronunciationController(backend).pronounce_syllable(glyph, on_complete)
\* is called once, on any backend; the environment matters to the hybrid
\* backend only.
Pronounce ==
    /\ ~pron.called
    /\ \E backend \in [1..Len(BackendMethods) -> MethodBehaviours],
          on_complete \in OnCompleteKinds,
          env \in [test_mode : BOOLEAN, cloud : TtsOutcomes, fallback : TtsOutcomes] :
          /\ (\A i \in 1..Len(BackendMethods) : backend[i] # "hybrid") => env = DefaultEnv
          /\ pron' = pronounce_syllable(pron, backend, env, on_complete)
    /\ UNCHANGED <<seqvars, navvars, comp, ui, orch>>

\* The event loop fires a queued singleShot(0, _safe_complete).
PronounceTick ==
    /\ pron.scheduled > 0
    /\ pron' = safe_complete([pron EXCEPT !.scheduled = @ - 1])
    /\ UNCHANGED <<seqvars, navvars, comp, ui, orch>>

\* The backend calls the completion callback it kept.
PronounceDone ==
    /\ pron.held > 0
    /\ pron' = safe_complete([pron EXCEPT !.held = @ - 1])
    /\ UNCHANGED <<seqvars, navvars, comp, ui, orch>>

NextPronounce == Pronounce \/ PronounceTick \/ PronounceDone

SpecPronounce == Init /\ [][NextPronounce]_vars

\* The UI controller with its sequencer, as one value.
X == [s |-> S, u |-> ui]

\* A handler of the UI controller ends.
CommitUi(x) ==
    /\ CommitSequencer(x.s)
    /\ ui' = x.u
    /\ UNCHANGED <<navvars, comp, pron, orch>>

\* The runs the UI controller starts: a listen, auto mode switched on, and
\* an auto-advance.
MaxUiStarts == 3

\* What get_repeats() returns: one play, or more than one (controls lock).
UiRepeats == {1, 2}

\* The pre_first_ms of what get_delays() returns: the default.
UiPreFirstMs == {0}

\* What tts_play does with on_done: PronunciationController calls it before
\* it returns, or leaves it to a QTimer.singleShot(0, ...) or to the backend.
UiPlayOutcomes == {"sync", "async"}

\* The listen chip, or the hear button of the romanization row, which is
\* never disabled.
ListenClicked ==
    /\ Len(runs) < MaxUiStarts
    /\ \E repeats \in UiRepeats, pre \in UiPreFirstMs, how \in UiPlayOutcomes :
          CommitUi(on_listen_clicked(X, repeats, pre, how))

\* The next chip, while it is enabled.
NextClicked ==
    /\ Len(runs) < MaxUiStarts
    /\ ui.enabled["chipNext"]
    /\ \E repeats \in UiRepeats, pre \in UiPreFirstMs, how \in UiPlayOutcomes :
          CommitUi(on_chip(X, "next", repeats, pre, how))

\* The previous chip, while it is enabled.
PrevClicked ==
    /\ Len(runs) < MaxUiStarts
    /\ ui.enabled["chipPrev"]
    /\ \E repeats \in UiRepeats, pre \in UiPreFirstMs, how \in UiPlayOutcomes :
          CommitUi(on_chip(X, "prev", repeats, pre, how))

\* The auto chip, while it is enabled; switching auto mode on starts a run.
AutoClicked ==
    /\ ui.enabled["chipAuto"]
    /\ IF ui.auto_mode_enabled
       THEN CommitUi(on_auto_clicked(X, 1, 0, "sync"))
       ELSE /\ Len(runs) < MaxUiStarts
            /\ \E repeats \in UiRepeats, pre \in UiPreFirstMs,
                  how \in UiPlayOutcomes :
                  CommitUi(on_auto_clicked(X, repeats, pre, how))

\* The event loop fires a queued timer; an auto-advance closure starts the
\* next run while auto mode is on.
UiFire ==
    \E c \in timers :
        IF c.kind = "auto" /\ ui.auto_mode_enabled
        THEN /\ Len(runs) < MaxUiStarts
             /\ \E repeats \in UiRepeats, pre \in UiPreFirstMs,
                   how \in UiPlayOutcomes :
                   CommitUi(UiFireOp(X, c, how, repeats, pre))
        ELSE \E how \in (IF c.kind = "play_n" THEN UiPlayOutcomes ELSE {"sync"}) :
                 CommitUi(UiFireOp(X, c, how, 1, 0))

\* The TTS backend calls the continuation of tts_play.
UiDone ==
    \E c \in conts : CommitUi([X EXCEPT !.s = DoneOp(@, c)])

NextUi ==
    ListenClicked \/ NextClicked \/ PrevClicked \/ AutoClicked \/ UiFire \/ UiDone

SpecUi == Init /\ [][NextUi]_vars

\* What pronounce_fn does: it returns, or raises an exception _advance catches.
PronounceFnOutcomes == {"return", "raise"}

\* orchestrator.update_config(repeats, ...), also while a run is in progress
OrchUpdateConfig ==
    /\ \E repeats \in 0..(MaxRepeat + 1) : orch' = update_config(orch, repeats)
    /\ UNCHANGED <<seqvars, navvars, comp, pron, ui>>

\* orchestrator.start(glyph)
OrchStart ==
    /\ orch.starts < MaxStarts
    /\ \E out \in PronounceFnOutcomes : orch' = orch_start(orch, out)
    /\ UNCHANGED <<seqvars, navvars, comp, pron, ui>>

\* orchestrator.stop()
OrchStop ==
    /\ orch' = orch_stop(orch)
    /\ UNCHANGED <<seqvars, navvars, comp, pron, ui>>

\* The single-shot timer times out: it is no longer active, _advance runs.
OrchTimeout ==
    /\ orch.timer_active
    /\ \E out \in PronounceFnOutcomes :
          orch' = orch_advance([orch EXCEPT !.timer_active = FALSE], out)
    /\ UNCHANGED <<seqvars, navvars, comp, pron, ui>>

NextOrch == OrchUpdateConfig \/ OrchStart \/ OrchStop \/ OrchTimeout

\* The event loop delivers every timeout; nobody has to call stop().
SpecOrch == Init /\ [][NextOrch]_vars /\ WF_vars(OrchTimeout)

\* ------------------------------------------------------------ observations

Runs == 1..Len(runs)

Pending == timers \cup conts

Quiescent == timers = {} /\ conts = {}

\* Positions in the log of the invocations of callback ev on behalf of run r.
At(r, ev) == {i \in 1..Len(log) : log[i].run = r /\ log[i].ev = ev}

Count(r, ev) == Cardinality(At(r, ev))

\* The finished callback was invoked for run r by cancel() / by _finish().
Cancelled(r) == \E i \in At(r, "finished") : log[i].arg = "cancel"

Completed(r) == \E i \in At(r, "finished") : log[i].arg = "finish"

\* Run r is live: started, and neither completed, cancelled nor superseded.
Live(r) == running /\ r = Len(runs)

\* The invocations made on behalf of run r, in order.
RunLog(r) == SelectSeq(log, LAMBDA e : e.run = r)

\* The invocations appended by the current step.
NewEvents == {i \in 1..Len(log') : i > Len(log)}

\* What the owner and the injected callbacks can tell of state s: everything
\* but the value of the token, of which only _valid() is ever read.
ObsClosure(s, c) ==
    [kind |-> c.kind, run |-> c.run, glyph |-> c.glyph, n_left |-> c.n_left,
     auto |-> c.auto, valid |-> Valid(s, c)]

Obs(s) ==
    [running |-> s.running, log |-> s.log, runs |-> s.runs,
     timers |-> {ObsClosure(s, c) : c \in s.timers},
     conts |-> {ObsClosure(s, c) : c \in s.conts}]

\* The program order of one run: the plays, reveal-hints, reveal-extras,
\* auto-advance in auto mode, completion.
Canon(r) ==
    LET p == runs[r]
        n == IF p.repeat_count >= 1 THEN p.repeat_count ELSE 1
    IN  [i \in 1..n |-> Event("play", r, p.glyph)]
        \o <<Event("hints", r, ""), Event("extras", r, "")>>
        \o (IF p.auto THEN <<Event("auto", r, "")>> ELSE <<>>)
        \o <<Event("finished", r, "finish")>>

IsPrefix(a, b) == Len(a) <= Len(b) /\ a = SubSeq(b, 1, Len(a))

\* ------------------------------------------------------------------ claims

FinishedTotal == Cardinality({i \in 1..Len(log) : log[i].ev = "finished"})

\* C1 (SpecOnce): after a single start(), with no further start() or cancel()
\* and a play callback that calls on_done once per call, the finished callback
\* is never invoked twice, and once no timer and no continuation is pending it
\* has been invoked exactly once and is_running() is false.
C1_FinishedOnceAfterSingleStart ==
    Len(runs) = 1 =>
        /\ FinishedTotal <= 1
        /\ Quiescent => (FinishedTotal = 1 /\ ~running)

\* An auto-mode run with the largest repeat count has run to its end.
C1_Witness ==
    /\ Len(runs) = 1
    /\ runs[1].auto
    /\ runs[1].repeat_count = MaxRepeat
    /\ Quiescent
    /\ FinishedTotal = 1
    /\ ~running

\* C2 (Spec): a run that was cancelled (by cancel() or by the next start())
\* causes no further callback invocation after the finished callback its
\* cancellation invoked, whichever of its queued timers fire later; and every
\* run that runs to completion has its finished callback invoked exactly once.
C2_CancelRestartSafe ==
    \A r \in Runs :
        /\ Cancelled(r) =>
              \A i \in At(r, "finished") : \A j \in 1..Len(log) :
                  log[j].run = r => j <= i
        /\ Completed(r) => Count(r, "finished") = 1

\* C3 (Spec): a timer closure or play continuation of a run that is no longer
\* live is a no-op when it fires: no callback is invoked, the running flag
\* and the generation token keep their values.
C3_StaleClosureIsNoOp ==
    [][ /\ \A c \in timers :
              (~Live(c.run) /\ \E how \in PlayOutcomes : Commit(FireOp(S, c, how)))
                  => UNCHANGED <<gen, running, log>>
        /\ \A c \in conts :
              (~Live(c.run) /\ Commit(DoneOp(S, c)))
                  => UNCHANGED <<gen, running, log>> ]_vars

\* C4 (Spec): only closures created by the most recent start() pass _valid().
C4_OnlyLatestRunValid ==
    \A c \in Pending : Valid(S, c) => c.run = Len(runs)

\* A closure of a superseded run is queued beside a valid one of the new run.
C4_Witness ==
    \E c \in Pending, d \in Pending :
        /\ Valid(S, c)
        /\ d.run < Len(runs)

\* C5 (Spec): cancel() on an active run clears the running flag, increments
\* the generation token and invokes the finished callback once, and no run
\* ever has the finished callback invoked for it twice.
C5_CancelFinishesOnce ==
    /\ [][(running /\ Cancel) =>
            /\ ~running'
            /\ gen' = gen + 1
            /\ log' = Append(log, Event("finished", Len(runs), "cancel"))]_vars
    /\ [](\A r \in Runs : Count(r, "finished") <= 1)

\* A cancelled auto-mode run whose queued auto-advance closure fired after the
\* cancellation, reaching _finish() a second time.
C5_Witness ==
    \E r \in Runs :
        /\ Cancelled(r)
        /\ \E i \in At(r, "finished"), j \in At(r, "auto") : i < j
        /\ \A c \in Pending : c.run # r
        /\ Count(r, "finished") = 1

\* C6 (Spec): cancel() with no run active invokes no callback, leaves
\* is_running() false and the queued closures as they were, and a start()
\* made next has the same observable result as without that cancel().
C6_IdleCancelIsNoOp ==
    [][(~running /\ Cancel) =>
          /\ ~running'
          /\ log' = log
          /\ Obs(SP) = Obs(S)
          /\ \A glyph \in Glyphs, r \in 0..MaxRepeat, pre \in PreFirstMs,
                auto \in BOOLEAN, how \in PlayOutcomes :
                Obs(StartOp(SP, glyph, r, pre, auto, how))
                    = Obs(StartOp(S, glyph, r, pre, auto, how))]_vars

\* cancel() on the idle sequencer, then a start() whose first play happened.
C6_Witness ==
    /\ Len(runs) = 1
    /\ gen = 2
    /\ running
    /\ FinishedTotal = 0
    /\ Count(1, "play") >= 1

\* C7 (Spec): what a run that was not cancelled has invoked so far is a prefix
\* of its program order (plays, hints, extras, auto-advance if auto_mode,
\* finished); while a play's continuation is outstanding the play is the
\* run's latest invocation; and no step makes two plays.
C7_ProgramOrder ==
    /\ [](\A r \in Runs : ~Cancelled(r) => IsPrefix(RunLog(r), Canon(r)))
    /\ [](\A c \in conts : Valid(S, c) =>
              /\ RunLog(c.run) # <<>>
              /\ RunLog(c.run)[Len(RunLog(c.run))].ev = "play")
    /\ [][Cardinality({i \in NewEvents : log'[i].ev = "play"}) <= 1]_vars

\* An auto-mode run with the largest repeat count went through its whole
\* program order.
C7_Witness ==
    \E r \in Runs :
        /\ runs[r].auto
        /\ runs[r].repeat_count = MaxRepeat
        /\ ~Cancelled(r)
        /\ RunLog(r) = Canon(r)

\* C8 (SpecOnce): a run never plays more than max(1, repeat_count) times nor
\* reveals twice, every play gets the glyph given to start(), and a completed
\* run has played exactly max(1, repeat_count) times and revealed hints and
\* extras once each.
C8_PlayAndRevealCounts ==
    \A r \in Runs :
        LET n == IF runs[r].repeat_count >= 1 THEN runs[r].repeat_count ELSE 1
        IN  /\ Count(r, "play") <= n
            /\ Count(r, "hints") <= 1
            /\ Count(r, "extras") <= 1
            /\ \A i \in At(r, "play") : log[i].arg = runs[r].glyph
            /\ Completed(r) =>
                  /\ Count(r, "play") = n
                  /\ Count(r, "hints") = 1
                  /\ Count(r, "extras") = 1

\* A completed run with the largest repeat count.
C8_Witness ==
    /\ Len(runs) = 1
    /\ runs[1].repeat_count = MaxRepeat
    /\ Completed(1)
    /\ Count(1, "play") = MaxRepeat

\* C9 (Spec): a run started with auto_mode false never invokes auto-advance;
\* a run that completed with auto_mode true invoked it exactly once, after
\* reveal-extras and before finished; and auto-advance is only ever invoked
\* by the timer queued for the auto-advance delay.
C9_AutoAdvanceOncePerCompletedRun ==
    /\ [](\A r \in Runs :
              /\ ~runs[r].auto => Count(r, "auto") = 0
              /\ (runs[r].auto /\ Completed(r)) =>
                    /\ Count(r, "auto") = 1
                    /\ \A a \in At(r, "auto") :
                          /\ \A e \in At(r, "extras") : e < a
                          /\ \A f \in At(r, "finished") : a < f)
    /\ [][\A i \in NewEvents : log'[i].ev = "auto" =>
              \E c \in timers \ timers' :
                  c.kind = "auto" /\ c.run = log'[i].run]_vars

\* A completed auto-mode run.
C9_Witness ==
    \E r \in Runs :
        /\ runs[r].auto
        /\ Completed(r)
        /\ Count(r, "auto") = 1

\* C10 (SpecRaise): when tts_play raises, _after_one is queued on a timer, so
\* a live run always has a valid closure queued, every running sequencer
\* eventually stops running, and when nothing is queued any more every run
\* has had its finished callback invoked exactly once.
C10_RaisingPlayStillFinishes ==
    /\ [][\A i \in NewEvents : log'[i].ev = "play" =>
              \E c \in timers' :
                  c.kind = "after_one" /\ c.run = log'[i].run /\ Valid(SP, c)]_vars
    /\ [](running => \E c \in timers : Valid(S, c))
    /\ [](\A r \in Runs : Count(r, "finished") <= 1)
    /\ [](Quiescent => (~running /\ \A r \in Runs : Count(r, "finished") = 1))
    /\ (running ~> ~running)

\* A run whose plays all raised went through every repeat and both reveals
\* and completed.
C10_Witness ==
    \E r \in Runs :
        /\ runs[r].repeat_count = MaxRepeat
        /\ Completed(r)
        /\ Count(r, "play") = MaxRepeat
        /\ Count(r, "hints") = 1
        /\ Count(r, "extras") = 1

\* C11 (SpecReveal): an exception raised by the reveal-hints or reveal-extras
\* callback is caught by the sequencer, and a run that is never cancelled or
\* superseded still reaches the finished callback exactly once with the
\* running flag false.
C11_RevealExceptionCaught ==
    /\ [](~escaped)
    /\ (Len(runs) = 1) ~> (FinishedTotal = 1 /\ ~running)

\* ------------------------------------------------------- navigator claims

\* The repository is not asked while the list is non-empty.
NotAsked == [raised |-> TRUE, pairs |-> <<>>]

InRange == pairs # <<>> /\ 0 <= index /\ index < Len(pairs)

RECURSIVE AdvanceTimes(_, _, _)
AdvanceTimes(n, delta, k) ==
    IF k = 0 THEN n
    ELSE AdvanceTimes(advance(n, delta, MODE_SYLLABLES, NotAsked), delta, k - 1)

\* The shape of a pair in the mode pairs_for_mode takes mode_text for.
HasShape(key, p) ==
    CASE key = "vowels" -> p[1] = SENTINEL
      [] key = "consonants" -> p[2] = SENTINEL
      [] OTHER -> /\ p[1] # <<>> /\ p[2] # <<>>
                  /\ p[1] # SENTINEL /\ p[2] # SENTINEL

\* C12 (SpecNav): after any sequence of reload_for_mode and advance calls,
\* whenever the pair list is non-empty, 0 <= index < len(pairs).
C12_IndexInRange == pairs # <<>> => (0 <= index /\ index < Len(pairs))

\* C13 (SpecNav): for a non-empty pair list of length n and a starting index i
\* of that list, n calls of advance(+1) bring the navigator back to index i and
\* to the same current pair, and so do n calls of advance(-1).
C13_FullCycleReturns ==
    InRange =>
        \A d \in {1, -1} :
            LET n == AdvanceTimes(N, d, Len(pairs))
            IN  /\ current_index(n) = index
                /\ current_pair(n) = current_pair(N)
                /\ \A k \in 1..(Len(pairs) - 1) :
                      current_index(AdvanceTimes(N, d, k)) # index

\* advance(+1) has just wrapped from the last pair of a longest list to the
\* first, and the two pairs differ.
C13_Witness ==
    /\ call.op = "advance"
    /\ call.delta = 1
    /\ Len(pairs) = MaxItems
    /\ index = 0
    /\ current_pair(N) = pairs[1]
    /\ pairs[1] # pairs[MaxItems]

\* C14 (SpecNav): advance(delta) sets index to (index + delta) mod len(pairs)
\* and the current pair to the pair at that index, for every delta: negative,
\* zero, larger in magnitude than the list; advance(-delta) directly after
\* advance(delta) restores the index and the current pair.
C14_AdvanceIsModular ==
    /\ pairs # <<>> =>
          \A d \in Deltas :
              LET n1 == advance(N, d, MODE_SYLLABLES, NotAsked)
              IN  /\ current_index(n1) = (index + d) % Len(pairs)
                  /\ current_pair(n1) = pairs[current_index(n1) + 1]
    /\ InRange =>
          \A d \in Deltas :
              LET n2 == advance(advance(N, d, MODE_SYLLABLES, NotAsked),
                                0 - d, MODE_SYLLABLES, NotAsked)
              IN  /\ current_index(n2) = index
                  /\ current_pair(n2) = current_pair(N)
    /\ (call.op = "advance" /\ pairs # <<>>) =>
          (InRange /\ current_pair(N) = pairs[index + 1])

\* advance() with a negative delta larger in magnitude than the longest list
\* has wrapped to the last pair.
C14_Witness ==
    /\ call.op = "advance"
    /\ call.delta = 0 - (MaxItems + 1)
    /\ Len(pairs) = MaxItems
    /\ index = MaxItems - 1
    /\ current_pair(N) = pairs[MaxItems]
    /\ pairs[1] # pairs[MaxItems]

\* C15 (SpecNav): for every outcome of the data source, reload_for_mode
\* returns normally and current_pair() is then a pair of two non-empty strings.
C15_ReloadNeverRaises ==
    call.op = "reload" =>
        /\ call.error = ""
        /\ current_consonant # <<>>
        /\ current_vowel # <<>>

\* C16 (SpecNav): after reload_for_mode returns, the pair list is never empty,
\* whatever the outcome of the data source, and the index label never shows a
\* total of 0.
C16_PairsNeverEmptyAfterReload ==
    /\ (call.op = "reload" /\ call.error = "") => pairs # <<>>
    /\ call.op = "update" => call.label[2] >= 1

\* C17 (SpecNav): reload_for_mode(reset_index=False) keeps the index when it
\* is in range of the new list and clamps it to len - 1 when it is not; it
\* never raises and never leaves index >= len(pairs).  With reset_index=True
\* the index is 0 and the current pair is the first pair of the new list.
C17_ReloadKeepsOrClampsIndex ==
    [][call'.op = "reload" =>
          /\ call'.error = ""
          /\ pairs' # <<>> => index' < Len(pairs')
          /\ (~call'.reset_index /\ pairs' # <<>>) =>
                index' = IF index < Len(pairs') THEN index ELSE Len(pairs') - 1
          /\ call'.reset_index =>
                /\ index' = 0
                /\ pairs' # <<>> =>
                      <<current_consonant', current_vowel'>> = pairs'[1]]_vars

\* C18 (SpecNav): after a reload for mode M, every pair of the list and the
\* pair current_pair() returns have the shape of M, for every outcome of the
\* data source.
C18_PairsHaveModeShape ==
    (call.op = "reload" /\ call.error = "") =>
        /\ \A i \in 1..Len(pairs) : HasShape(call.mode, pairs[i])
        /\ HasShape(call.mode, current_pair(N))

\* -------------------------------------------------------- composer claims

\* The reference function on table members: the syllable with code point
\* 0xAC00 + (L * 21 + V) * 28 + T, and "" for everything else.
Reference(lead, vowel, tail) ==
    IF /\ lead \in Range(CHOSEONG)
       /\ vowel \in Range(JUNGSEONG)
       /\ tail \in Range(JONGSEONG)
    THEN <<44032 + (IndexIn(CHOSEONG, lead) * 21 + IndexIn(JUNGSEONG, vowel)) * 28
                 + IndexIn(JONGSEONG, tail)>>
    ELSE <<>>

\* C19 (SpecCompose): for every lead of the 19-entry table and every vowel of
\* the 21-entry table, decomposing the syllable compose_cv(lead, vowel) returns
\* (lead, vowel), and so does decomposing compose_lvt(lead, vowel, tail) for
\* every tail of the 28-entry table.
C19_DecomposeInvertsCompose ==
    (/\ comp.decomposed
     /\ comp.lead \in Range(CHOSEONG)
     /\ comp.vowel \in Range(JUNGSEONG)
     /\ comp.tail \in Range(JONGSEONG)) =>
        /\ Len(comp.syllable) = 1
        /\ comp.pair = <<comp.lead, comp.vowel>>

\* The last lead, the last vowel and the last tail compose to U+D7A3, which
\* decomposes to that lead and that vowel.
C19_Witness ==
    /\ comp.decomposed
    /\ comp.composer = "compose_lvt"
    /\ comp.lead = CHOSEONG[Len(CHOSEONG)]
    /\ comp.vowel = JUNGSEONG[Len(JUNGSEONG)]
    /\ comp.tail = JONGSEONG[Len(JONGSEONG)]
    /\ comp.syllable = <<55203>>
    /\ comp.pair = <<comp.lead, comp.vowel>>

\* C20 (SpecCompose), as claimed: compose_lvt(lead, vowel, tail) is the
\* reference function of its arguments: the syllable at 0xAC00 +
\* (L * 21 + V) * 28 + T, within U+AC00..U+D7A3, when lead, vowel and tail are
\* members of their tables, and "" for every other input.
C20_ComposeIsReference ==
    comp.composer = "compose_lvt" =>
        /\ comp.syllable = Reference(comp.lead, comp.vowel, comp.tail)
        /\ comp.syllable # <<>> =>
              (44032 <= comp.syllable[1] /\ comp.syllable[1] <= 55203)

\* C20 (SpecCompose), amended: compose_lvt(lead, vowel, tail) is the reference
\* function of its arguments with the surrounding whitespace stripped.
C20_ComposeIsReferenceOfStripped ==
    comp.composer = "compose_lvt" =>
        /\ comp.syllable =
              Reference(Strip(comp.lead), Strip(comp.vowel), Strip(comp.tail))
        /\ comp.syllable # <<>> =>
              (44032 <= comp.syllable[1] /\ comp.syllable[1] <= 55203)

\* " ㄱ", "ㅏ " and "ㄴ " compose to "간" (U+AC04).
C20_Witness ==
    /\ comp.composer = "compose_lvt"
    /\ comp.lead = SPACE \o KIYEOK
    /\ comp.vowel = JAMO_A \o SPACE
    /\ comp.tail = NIEUN \o SPACE
    /\ comp.syllable = <<44036>>

\* ------------------------------------------------- navigator claims, more

C30_CurrentPairIsCached ==
    call.op \in {"reload", "advance"} =>
        IF pairs # <<>>
        THEN InRange /\ current_pair(N) = pairs[index + 1]
        ELSE current_pair(N) = <<KIYEOK, JAMO_A>>

\* ------------------------------------------------- sequencer claims, more

\* C25 (SpecAuto): every started run that is neither cancelled nor superseded
\* eventually has the finished callback invoked and is_running() false,
\* whatever the auto-advance callback does short of never returning.
C25_CompletionAlwaysSignalled ==
    (Len(runs) = 1) ~> (Completed(1) /\ ~running)

\* The first play of a run of start(): invoked before start() returns.
PlayedInStart(s, run) == \E i \in 1..Len(s.log) : s.log[i] = Event("play", run, s.runs[run].glyph)

\* The first step of a run of start(): pending as a timer closure.
FirstStepPending(s, run) ==
    \E c \in s.timers :
        /\ c.kind = "play_n"
        /\ c.run = run
        /\ c.n_left = Max(1, s.runs[run].repeat_count)

\* C26 (Spec), as claimed: when start() returns, the play callback of the new
\* run has not been invoked and its first step is pending as a timer closure,
\* for every pre-first delay including 0.
C26_StartDefersFirstStep ==
    [][Len(runs') = Len(runs) + 1 =>
          /\ ~PlayedInStart(SP, Len(runs'))
          /\ FirstStepPending(SP, Len(runs'))]_vars

\* C26 (Spec), amended: with pre_first_ms > 0, when start() returns the play
\* callback of the new run has not been invoked and the first step is pending
\* as a timer closure; with pre_first_ms <= 0, start() itself invokes the play
\* callback once before it returns and queues no timer for the first step.
C26_StartDefersOnlyPositiveDelay ==
    Len(runs) < MaxStarts =>
        \A r \in 0..MaxRepeat, pre \in PreFirstMs, auto \in BOOLEAN,
           how \in PlayOutcomes :
            LET run == Len(runs) + 1
                s == StartOp(S, GlyphAt(run), r, pre, auto, how)
            IN  /\ s.running
                /\ Len(s.runs) = run
                /\ IF pre > 0
                   THEN /\ FirstStepPending(s, run)
                        /\ ~PlayedInStart(s, run)
                   ELSE /\ PlayedInStart(s, run)
                        /\ Cardinality({i \in 1..Len(s.log) :
                                           s.log[i].run = run /\ s.log[i].ev = "play"}) = 1
                        /\ ~FirstStepPending(s, run)

\* start() with no pre-first delay has returned: the play callback was
\* invoked, the TTS backend holds the continuation, no timer is queued.
C26_Witness ==
    /\ Len(runs) = 1
    /\ running
    /\ log = <<Event("play", 1, runs[1].glyph)>>
    /\ timers = {}
    /\ conts # {}

\* C28 (Spec): across any interleaving of start(), cancel() and timer firings,
\* the finished callback is invoked at most once per start() call, never more
\* often in total than start() was called, and whenever is_running() is false
\* every started run has had it invoked exactly once.
C28_FinishedMatchesStarts ==
    /\ FinishedTotal <= Len(runs)
    /\ \A r \in Runs : Count(r, "finished") <= 1
    /\ running => FinishedTotal = Len(runs) - 1
    /\ ~running => \A r \in Runs : Count(r, "finished") = 1

\* Idle after the largest number of runs: one was superseded or cancelled,
\* the last one ran to completion.
C28_Witness ==
    /\ ~running
    /\ Len(runs) = MaxStarts
    /\ Cancelled(1)
    /\ Completed(MaxStarts)
    /\ FinishedTotal = MaxStarts

\* ----------------------------------------------------- pronunciation claims

\* C21 (SpecPronounce): pronounce_syllable invokes a given on_complete exactly
\* once for every backend behaviour: once its call has returned, the
\* invocations made and the invocations still to come (queued on a timer or
\* kept by the backend) number one.
C21_OnCompleteExactlyOnce ==
    (pron.called /\ pron.on_complete # "none") =>
        pron.completed + pron.scheduled + pron.held = 1

\* ------------------------------------------------------- playback UI claims

\* C22 (SpecUi): while a run started with repeats > 1 is live, the main
\* controls are disabled, however the run was started.
C22_LockedWhileRepeating ==
    (running /\ runs[Len(runs)].repeat_count > 1) =>
        \A w \in LockedControls : ~ui.enabled[w]

\* C23 (SpecUi): no sequence of clicks and timer firings reaches a state where
\* the latest run, started with repeats > 1, has ended, the sequencer is
\* idle, auto mode is off and a control locked for repeats is still disabled.
C23_UnlockedWhenIdle ==
    (/\ ~running
     /\ ~ui.auto_mode_enabled
     /\ Len(runs) > 0
     /\ runs[Len(runs)].repeat_count > 1) =>
        \A w \in LockedControls : ui.enabled[w]

\* The positions of log' at which the current step invoked the auto-advance
\* callback on behalf of run r.
AutoAdvanced(r) ==
    {i \in NewEvents : log'[i] = Event("auto", r, "")}

\* C29 (SpecUi): when the auto-advance step of the live run calls start(), the
\* superseded run gets exactly one finished-callback invocation, made by the
\* cancel() inside start() right after the auto-advance callback began; the
\* trailing _finish() adds none; the callback never sees is_running() true;
\* afterwards the sequencer is running and every valid pending closure
\* belongs to the newly started run, which has one.
C29_ReentrantStartSupersedes ==
    [][\A r \in Runs :
         (running /\ r = Len(runs) /\ AutoAdvanced(r) # {}
            /\ ui.auto_mode_enabled) =>
            /\ Len(runs') = r + 1
            /\ \A i \in AutoAdvanced(r) :
                  /\ i < Len(log')
                  /\ log'[i + 1] = Event("finished", r, "cancel")
            /\ Cardinality({i \in 1..Len(log') :
                               log'[i].ev = "finished" /\ log'[i].run = r}) = 1
            /\ ~ui'.seen_running
            /\ running'
            /\ \A c \in timers' \cup conts' : Valid(SP, c) => c.run = r + 1
            /\ \E c \in timers' \cup conts' : Valid(SP, c)]_vars

\* Auto mode is on and the auto-advance step of run 2, the first run of auto
\* mode, has started run 3: run 2 was finished by cancel() right after its
\* auto-advance callback.
C29_Witness ==
    /\ ui.auto_mode_enabled
    /\ running
    /\ Len(runs) = 3
    /\ \E i \in 1..(Len(log) - 1) :
          /\ log[i] = Event("auto", 2, "")
          /\ log[i + 1] = Event("finished", 2, "cancel")
    /\ Count(2, "finished") = 1

\* ------------------------------------------------------ orchestrator claims

\* C24 (SpecOrch): a run of the orchestrator eventually ends without stop()
\* being called, is_running() false, and then the unlock callback has been
\* called as often as the lock callback: once for a run that locked, never
\* for a run with repeats <= 1.
C24_RunEndsUnlocked ==
    orch.running ~> (~orch.running /\ orch.unlocks = orch.locks)

====
